---- MODULE Spec2Model ----
(***************************************************************************)
(* EditDistanceCalculator (xapian-core/api/editdistance.h).                *)
(*                                                                         *)
(* A calculator is constructed for one target string and then evaluated    *)
(* against candidate strings.  operator() runs, in order: the two checks   *)
(* on the encoded (UTF-8) length of the candidate, the conversion of the   *)
(* candidate to UTF-32 into the scratch vector utf32, the check on the     *)
(* UTF-32 lengths, and calc().                                             *)
(*                                                                         *)
(* Strings are sequences of bytes.  Inputs are the UTF-8 encodings of      *)
(* sequences of code points over Alphabet, whose members take 1, 2, 3 and  *)
(* 4 bytes.  Utf8Iterator and calc() are declared or used by the header    *)
(* but defined elsewhere in xapian-core; they are modelled from the        *)
(* design document.                                                        *)
(***************************************************************************)
EXTENDS Integers, Sequences, FiniteSets, TLC

\* ------------------------------------------------------------------ bounds
\* longest target, in code points
MaxTargetLen == 2
\* longest candidate, in code points
MaxCandLen == 2
\* largest max_distance passed by a caller
MaxDist == 1
\* longest target and candidate, in code points, when one calculator is
\* called again and again
MaxReuseLen == 2
\* longest target and candidate, in code points, when two threads call
MaxConcLen == 1

\* --------------------------------------------------------------- constants
VEC_SIZE == 64
INT_MAX == 2147483647

\* 'a' and 'b' (1 byte), inverted '!' U+00A1 (2 bytes, congruent to 'a'
\* modulo VEC_SIZE), euro sign U+20AC (3 bytes), U+1F600 (4 bytes)
Alphabet == {97, 98, 161, 8364, 128512}

\* The code points of the specifications that make several calls.
SmallAlphabet == {97, 161, 8364}

Threads == {1, 2}
Objects == {1, 2}

\* ----------------------------------------------------------------- helpers
Abs(x) == IF x < 0 THEN -x ELSE x

Min2(a, b) == IF a <= b THEN a ELSE b

SetMin(S) == CHOOSE x \in S : \A y \in S : x <= y

SeqsUpTo(A, n) == UNION {[1..k -> A] : k \in 0..n}

\* ------------------------------------------------------------------- UTF-8
\* The bytes of one code point.
Utf8Encode(ch) ==
    IF ch < 128 THEN <<ch>>
    ELSE IF ch < 2048 THEN <<192 + (ch \div 64), 128 + (ch % 64)>>
    ELSE IF ch < 65536 THEN
        <<224 + (ch \div 4096), 128 + ((ch \div 64) % 64), 128 + (ch % 64)>>
    ELSE <<240 + (ch \div 262144), 128 + ((ch \div 4096) % 64),
           128 + ((ch \div 64) % 64), 128 + (ch % 64)>>

RECURSIVE Utf8String(_)
\* The std::string holding the code points cps.
Utf8String(cps) ==
    IF cps = <<>> THEN <<>>
    ELSE Utf8Encode(Head(cps)) \o Utf8String(Tail(cps))

\* Number of bytes the sequence starting with lead byte b takes.
Utf8SeqLen(b) ==
    IF b < 192 THEN 1 ELSE IF b < 224 THEN 2 ELSE IF b < 240 THEN 3 ELSE 4

\* The code point held by the first n bytes of s.
Utf8CodePoint(s, n) ==
    IF n = 1 THEN s[1]
    ELSE IF n = 2 THEN (s[1] % 32) * 64 + (s[2] % 64)
    ELSE IF n = 3 THEN (s[1] % 16) * 4096 + (s[2] % 64) * 64 + (s[3] % 64)
    ELSE (s[1] % 8) * 262144 + (s[2] % 64) * 4096 + (s[3] % 64) * 64
         + (s[4] % 64)

RECURSIVE Utf8Iterator(_)
\* The code points Utf8Iterator yields over the bytes s, first to last.  A
\* sequence cut short by the end of the string is read as single bytes.
Utf8Iterator(s) ==
    IF s = <<>> THEN <<>>
    ELSE LET n == IF Utf8SeqLen(s[1]) <= Len(s) THEN Utf8SeqLen(s[1]) ELSE 1
         IN  <<Utf8CodePoint(s, n)>> \o Utf8Iterator(SubSeq(s, n + 1, Len(s)))

\* -------------------------------------------------------------- constructor
\* int target_freqs[VEC_SIZE] = { 0 }
NoFreqs == [b \in 0..(VEC_SIZE - 1) |-> 0]

RECURSIVE CtorLoopSkipLast(_, _, _)
CtorLoopSkipLast(cps, tgt, freqs) ==
    IF cps = <<>> THEN [target |-> tgt, target_freqs |-> freqs]
    ELSE LET ch == Head(cps)
         IN  CtorLoopSkipLast(Tail(cps), Append(tgt, ch),
                 IF Len(cps) = 1 THEN freqs
                 ELSE [freqs EXCEPT ![ch % VEC_SIZE] = @ + 1])

RECURSIVE CtorLoop(_, _, _)
\* The constructor's loop: every code point of the target is pushed onto
\* target and tallied in target_freqs modulo VEC_SIZE.
CtorLoop(cps, tgt, freqs) ==
    IF cps = <<>> THEN [target |-> tgt, target_freqs |-> freqs]
    ELSE LET ch == Head(cps)
         IN  CtorLoop(Tail(cps), Append(tgt, ch),
                      [freqs EXCEPT ![ch % VEC_SIZE] = @ + 1])

EditDistanceCalculatorMut(target_) ==
    CtorLoopSkipLast(Utf8Iterator(target_), <<>>, NoFreqs)

\* The fields target and target_freqs of a calculator built for target_.
EditDistanceCalculator(target_) ==
    CtorLoop(Utf8Iterator(target_), <<>>, NoFreqs)

\* ------------------------------------------------------------ edit distance
RECURSIVE TrueDist(_, _)
\* The edit distance of the class comment: the least number of insertions,
\* deletions, substitutions and transpositions of two neighbouring
\* characters, no character taking part in more than one edit.
TrueDist(t, u) ==
    LET n == Len(t)
        k == Len(u)
    IN  IF n = 0 THEN k
        ELSE IF k = 0 THEN n
        ELSE LET tp == SubSeq(t, 1, n - 1)
                 up == SubSeq(u, 1, k - 1)
                 base == Min2(Min2(TrueDist(tp, u) + 1, TrueDist(t, up) + 1),
                              TrueDist(tp, up) + (IF t[n] = u[k] THEN 0 ELSE 1))
             IN  IF n > 1 /\ k > 1 /\ t[n] = u[k - 1] /\ t[n - 1] = u[k]
                 THEN Min2(base, TrueDist(SubSeq(t, 1, n - 2),
                                          SubSeq(u, 1, k - 2)) + 1)
                 ELSE base

RECURSIVE UnrestrictedDist(_, _)
\* The same edits with a character allowed to take part in several of them
\* (characters may be inserted between two transposed ones): never more
\* than TrueDist.
UnrestrictedDist(t, u) ==
    LET n == Len(t)
        k == Len(u)
    IN  IF n = 0 THEN k
        ELSE IF k = 0 THEN n
        ELSE LET tp == SubSeq(t, 1, n - 1)
                 up == SubSeq(u, 1, k - 1)
                 base == Min2(Min2(UnrestrictedDist(tp, u) + 1,
                                   UnrestrictedDist(t, up) + 1),
                              UnrestrictedDist(tp, up)
                                  + (IF t[n] = u[k] THEN 0 ELSE 1))
                 swaps == {UnrestrictedDist(SubSeq(t, 1, p[1] - 1),
                                            SubSeq(u, 1, p[2] - 1))
                               + (n - p[1] - 1) + 1 + (k - p[2] - 1) :
                           p \in {q \in (1..(n - 1)) \X (1..(k - 1)) :
                                      t[q[1]] = u[k] /\ t[n] = u[q[2]]}}
             IN  IF swaps = {} THEN base ELSE Min2(base, SetMin(swaps))

\* -------------------------------------------------------------------- calc
RECURSIVE TallyCandidate(_, _)
\* freqs with the bucket of every code point of u decremented.
TallyCandidate(freqs, u) ==
    IF u = <<>> THEN freqs
    ELSE TallyCandidate([freqs EXCEPT ![Head(u) % VEC_SIZE] = @ - 1], Tail(u))

RECURSIVE SumAbs(_, _)
\* The sum of the absolute values of elements 0..(i - 1) of freqs.
SumAbs(freqs, i) ==
    IF i = 0 THEN 0 ELSE SumAbs(freqs, i - 1) + Abs(freqs[i - 1])

\* The lower bound from the frequency histograms: the summed absolute
\* differences of the buckets, halved and rounded up.
HistogramBound(freqs, u) ==
    (SumAbs(TallyCandidate(freqs, u), VEC_SIZE) + 1) \div 2

\* Row i of the table: row[j] is the distance between the first i code
\* points of t and the first j code points of u.
DPRow(t, u, i, prev, prev2) ==
    LET cur[j \in 0..Len(u)] ==
            IF j = 0 THEN i
            ELSE LET base == Min2(Min2(prev[j] + 1, cur[j - 1] + 1),
                                  prev[j - 1]
                                      + (IF t[i] = u[j] THEN 0 ELSE 1))
                 IN  IF i > 1 /\ j > 1 /\ t[i] = u[j - 1] /\ t[i - 1] = u[j]
                     THEN Min2(base, prev2[j - 2] + 1)
                     ELSE base
    IN  cur

RECURSIVE BoundedDP(_, _, _, _, _, _)
\* The table row by row from row i on, given up as soon as every cell of a
\* row exceeds max_dist.
BoundedDP(t, u, max_dist, i, prev, prev2) ==
    IF \A j \in 0..Len(u) : prev[j] > max_dist
    THEN SetMin({prev[j] : j \in 0..Len(u)})
    ELSE IF i > Len(t) THEN prev[Len(u)]
    ELSE BoundedDP(t, u, max_dist, i + 1, DPRow(t, u, i, prev, prev2), prev)

\* Integers calc needs for a candidate of len code points: three rows.
ArrayNeed(len) == 3 * (len + 1)

\* calc(ptr, len, max_distance) on a calculator holding tgt and freqs: the
\* value returned and the place it is returned from.
Calc(tgt, freqs, u, max_dist) ==
    LET ed_lower_bound == HistogramBound(freqs, u)
        row0 == [j \in 0..Len(u) |-> j]
    IN  IF ed_lower_bound > max_dist
        THEN [value |-> ed_lower_bound, stage |-> "hist"]
        ELSE [value |-> BoundedDP(tgt, u, max_dist, 1, row0, row0),
              stage |-> "dp"]

\* -------------------------------------------------------------- operator()
\* The sizes are size_t and max_distance is not negative: the sums below do
\* not wrap.
\* "Candidate too short": target.size() > candidate.size() + max_distance.
CandidateTooShortMut(tgt, cand, max_dist) == Len(tgt) >= Len(cand) + max_dist

CandidateTooShort(tgt, cand, max_dist) == Len(tgt) > Len(cand) + max_dist

\* "Candidate too long":
\* target.size() + max_distance < candidate.size() * 3 / 4.
CandidateTooLong(tgt, cand, max_dist) ==
    Len(tgt) + max_dist < (Len(cand) * 3) \div 4

\* utf32.assign(Utf8Iterator(candidate), Utf8Iterator()): the new contents
\* of a vector that held old.
AssignUtf32Mut(old, cand) == old \o Utf8Iterator(cand)

AssignUtf32(old, cand) == Utf8Iterator(cand)

\* lb = abs(int(utf32.size()) - int(target.size()))
LengthLowerBound(u, tgt) == Abs(Len(u) - Len(tgt))

\* if (lb > max_distance) return lb;
LbRejectsMut(lb, max_dist) == lb >= max_dist

LbRejects(lb, max_dist) == lb > max_dist

\* One whole call of operator() on a calculator just built for target_.
Evaluate(target_, cand, max_dist) ==
    LET c == EditDistanceCalculator(target_)
        u == AssignUtf32(<<>>, cand)
        lb == LengthLowerBound(u, c.target)
    IN  IF CandidateTooShort(c.target, cand, max_dist) THEN INT_MAX
        ELSE IF CandidateTooLong(c.target, cand, max_dist) THEN INT_MAX
        ELSE IF LbRejects(lb, max_dist) THEN lb
        ELSE Calc(c.target, c.target_freqs, u, max_dist).value

\* ------------------------------------------------------------------- state
VARIABLES
    target,         \* per calculator: the target in UTF-32
    target_freqs,   \* per calculator: frequency histogram of the target
    utf32,          \* per calculator: the current candidate in UTF-32
    array,          \* per calculator: integers allocated for calc, 0 if none
    last_max,       \* per calculator: max_distance of the latest call
    obj,            \* per thread: the calculator the thread calls
    pc,             \* per thread: position in operator()
    candidate,      \* per thread: argument candidate
    max_distance,   \* per thread: argument max_distance
    result,         \* per thread: the value returned
    stage           \* per thread: the return statement taken

vars == <<target, target_freqs, utf32, array, last_max, obj, pc, candidate,
          max_distance, result, stage>>

objvars == <<target, target_freqs, utf32, array, last_max>>

Targets == {Utf8String(s) : s \in SeqsUpTo(Alphabet, MaxTargetLen)}

Candidates == {Utf8String(s) : s \in SeqsUpTo(Alphabet, MaxCandLen)}

\* The state after every calculator has been constructed for target_ and
\* before any thread has called it.
Constructed(target_) ==
    /\ target = [o \in Objects |-> EditDistanceCalculator(target_).target]
    /\ target_freqs =
           [o \in Objects |-> EditDistanceCalculator(target_).target_freqs]
    /\ utf32 = [o \in Objects |-> <<>>]
    /\ array = [o \in Objects |-> 0]
    /\ last_max = [o \in Objects |-> MaxDist]
    /\ pc = [t \in Threads |-> "idle"]
    /\ candidate = [t \in Threads |-> <<>>]
    /\ max_distance = [t \in Threads |-> 0]
    /\ result = [t \in Threads |-> 0]
    /\ stage = [t \in Threads |-> "none"]

\* One thread, one calculator.
Init ==
    /\ \E target_ \in Targets : Constructed(target_)
    /\ obj = [t \in Threads |-> 1]

ReuseStrings == {Utf8String(s) : s \in SeqsUpTo(SmallAlphabet, MaxReuseLen)}

ReuseInit ==
    /\ \E target_ \in ReuseStrings : Constructed(target_)
    /\ obj = [t \in Threads |-> 1]

\* ----------------------------------------------------------------- actions
\* A caller enters operator() with a candidate and a max_distance that is
\* the same as or less than the one of the latest call on the calculator.
Call(t, cands) ==
    /\ pc[t] = "idle"
    /\ \E cand \in cands, m \in 0..last_max[obj[t]] :
          /\ candidate' = [candidate EXCEPT ![t] = cand]
          /\ max_distance' = [max_distance EXCEPT ![t] = m]
          /\ last_max' = [last_max EXCEPT ![obj[t]] = m]
    /\ pc' = [pc EXCEPT ![t] = "length"]
    /\ UNCHANGED <<target, target_freqs, utf32, array, obj, result, stage>>

\* The two checks on the encoded length of the candidate.
CheckEncodedLength(t) ==
    /\ pc[t] = "length"
    /\ IF CandidateTooShort(target[obj[t]], candidate[t], max_distance[t])
       THEN /\ result' = [result EXCEPT ![t] = INT_MAX]
            /\ stage' = [stage EXCEPT ![t] = "short"]
            /\ pc' = [pc EXCEPT ![t] = "done"]
       ELSE IF CandidateTooLong(target[obj[t]], candidate[t], max_distance[t])
       THEN /\ result' = [result EXCEPT ![t] = INT_MAX]
            /\ stage' = [stage EXCEPT ![t] = "long"]
            /\ pc' = [pc EXCEPT ![t] = "done"]
       ELSE /\ pc' = [pc EXCEPT ![t] = "decode"]
            /\ UNCHANGED <<result, stage>>
    /\ UNCHANGED <<objvars, obj, candidate, max_distance>>

DecodeIntoTarget(t) ==
    /\ pc[t] = "decode"
    /\ target' = [target EXCEPT
                      ![obj[t]] = AssignUtf32(utf32[obj[t]], candidate[t])]
    /\ pc' = [pc EXCEPT ![t] = "lb"]
    /\ UNCHANGED <<utf32, target_freqs, array, last_max, obj, candidate,
                   max_distance, result, stage>>

DecodeIntoShared(t) ==
    /\ pc[t] = "decode"
    /\ utf32' = [utf32 EXCEPT ![1] = AssignUtf32(utf32[1], candidate[t])]
    /\ pc' = [pc EXCEPT ![t] = "lb"]
    /\ UNCHANGED <<target, target_freqs, array, last_max, obj, candidate,
                   max_distance, result, stage>>

\* The candidate is converted to UTF-32 into the calculator's utf32.
Decode(t) ==
    /\ pc[t] = "decode"
    /\ utf32' = [utf32 EXCEPT
                     ![obj[t]] = AssignUtf32(utf32[obj[t]], candidate[t])]
    /\ pc' = [pc EXCEPT ![t] = "lb"]
    /\ UNCHANGED <<target, target_freqs, array, last_max, obj, candidate,
                   max_distance, result, stage>>

LbBytes(t) == Abs(Len(candidate[t]) - Len(target[obj[t]]))

\* lb as the thread computes it, from the calculator's utf32.
Lb(t) == LengthLowerBound(utf32[obj[t]], target[obj[t]])

\* The check on the UTF-32 lengths.
CheckLb(t) ==
    /\ pc[t] = "lb"
    /\ IF LbRejects(Lb(t), max_distance[t])
       THEN /\ result' = [result EXCEPT ![t] = Lb(t)]
            /\ stage' = [stage EXCEPT ![t] = "lb"]
            /\ pc' = [pc EXCEPT ![t] = "done"]
       ELSE /\ pc' = [pc EXCEPT ![t] = "calc"]
            /\ UNCHANGED <<result, stage>>
    /\ UNCHANGED <<objvars, obj, candidate, max_distance>>

\* return calc(&utf32[0], utf32.size(), max_distance): calc reads the
\* calculator's utf32, target and target_freqs, and grows array when the
\* table is needed and array is too small for it.  utf32[0] on an empty
\* vector is undefined: a build either forms a pointer calc never follows
\* (len is 0) or, with the library's assertions on, ends the process.
CalcStep(t) ==
    /\ pc[t] = "calc"
    /\ \/ /\ LET o == obj[t]
                 r == Calc(target[o], target_freqs[o], utf32[o],
                           max_distance[t])
             IN  /\ result' = [result EXCEPT ![t] = r.value]
                 /\ stage' = [stage EXCEPT ![t] = r.stage]
                 /\ array' =
                        IF r.stage = "dp" /\ array[o] < ArrayNeed(Len(utf32[o]))
                        THEN [array EXCEPT ![o] = ArrayNeed(Len(utf32[o]))]
                        ELSE array
          /\ pc' = [pc EXCEPT ![t] = "done"]
       \/ /\ utf32[obj[t]] = <<>>
          /\ pc' = [u \in Threads |-> "abort"]
          /\ UNCHANGED <<result, stage, array>>
    /\ UNCHANGED <<target, target_freqs, utf32, last_max, obj, candidate,
                   max_distance>>

\* The caller has taken the value; the arguments are gone.
Return(t) ==
    /\ pc[t] = "done"
    /\ pc' = [pc EXCEPT ![t] = "idle"]
    /\ candidate' = [candidate EXCEPT ![t] = <<>>]
    /\ max_distance' = [max_distance EXCEPT ![t] = 0]
    /\ result' = [result EXCEPT ![t] = 0]
    /\ stage' = [stage EXCEPT ![t] = "none"]
    /\ UNCHANGED <<objvars, obj>>

\* One call on a calculator just built.
Next ==
    \/ Call(1, Candidates)
    \/ CheckEncodedLength(1)
    \/ Decode(1)
    \/ CheckLb(1)
    \/ CalcStep(1)

Spec == Init /\ [][Next]_vars

\* One caller making call after call on one calculator.
ReuseNext ==
    \/ Call(1, ReuseStrings)
    \/ CheckEncodedLength(1)
    \/ Decode(1)
    \/ CheckLb(1)
    \/ CalcStep(1)
    \/ Return(1)

SpecReuse == ReuseInit /\ [][ReuseNext]_vars

\* ------------------------------------------------------------- concurrency
\* The code points of the two-thread specification.
ConcAlphabet == {97, 161}

ConcStrings == {Utf8String(s) : s \in SeqsUpTo(ConcAlphabet, MaxConcLen)}

\* Two threads; thread 2 calls either the calculator thread 1 calls or a
\* calculator of its own, built for the same target.
ConcInit ==
    /\ \E target_ \in ConcStrings : Constructed(target_)
    /\ obj \in {f \in [Threads -> Objects] : f[1] = 1}

\* Each thread makes one call, and the statements of the two calls
\* interleave.  There is no lock in the class: on one calculator the threads
\* share utf32 and array.
ConcNext ==
    \E t \in Threads :
        \/ Call(t, ConcStrings)
        \/ CheckEncodedLength(t)
        \/ Decode(t)
        \/ CheckLb(t)
        \/ CalcStep(t)

SpecConc == ConcInit /\ [][ConcNext]_vars

\* ------------------------------------------------------------------ claims
Done(t) == pc[t] = "done"

\* The code points of the candidate thread t passed.
Cps(t) == Utf8Iterator(candidate[t])

\* The edit distance between the target of the calculator thread t calls
\* and the candidate it passed.
Dist(t) == TrueDist(target[obj[t]], Cps(t))

\* What a calculator built afresh for the same target returns for the call
\* thread t made.
Alone(t) == Evaluate(Utf8String(target[obj[t]]), candidate[t], max_distance[t])

ByteStages == {"short", "long"}

\* C1: whenever the true distance between target and candidate is at most
\* max_distance, the call returns exactly that distance.
C1_Exactness ==
    \A t \in Threads :
        (Done(t) /\ Dist(t) <= max_distance[t]) => result[t] = Dist(t)

\* C2: whenever the true distance between target and candidate exceeds
\* max_distance, the call returns a value greater than max_distance,
\* whichever return statement produces it.
C2_SentinelSoundness ==
    \A t \in Threads :
        (Done(t) /\ Dist(t) > max_distance[t]) => result[t] > max_distance[t]

\* The table itself, not a cheap check, produced a value above max_distance.
C2_Witness ==
    Done(1) /\ stage[1] = "dp" /\ Dist(1) > max_distance[1]
        /\ result[1] > max_distance[1]

\* C3: a call whose candidate is the target text returns 0.
C3_Identity ==
    \A t \in Threads :
        (Done(t) /\ candidate[t] = Utf8String(target[obj[t]])) => result[t] = 0

\* C4: whenever a call returns from a check on the encoded length, the true
\* distance exceeds max_distance.
C4_NoFalseRejection ==
    \A t \in Threads :
        (Done(t) /\ stage[t] \in ByteStages) => Dist(t) > max_distance[t]

\* C5: every call of a sequence of calls on one calculator, max_distance
\* never increasing, returns what a calculator built afresh for the same
\* target returns for that candidate and max_distance.
C5_ReuseCorrectness ==
    \A t \in Threads : Done(t) => result[t] = Alone(t)

\* A call went through calc with array left larger by an earlier call, and
\* a call returned early with an earlier candidate still in utf32.
C5_Witness ==
    /\ Done(1)
    /\ \/ stage[1] = "dp" /\ array[1] > ArrayNeed(Len(utf32[1]))
       \/ stage[1] \in ByteStages /\ utf32[1] # <<>> /\ utf32[1] # Cps(1)

\* C6: no step of any call changes target or target_freqs.
C6_TargetFrame ==
    [][target' = target /\ target_freqs' = target_freqs]_vars

\* A call has returned having written the scratch vector and the array.
C6_Witness ==
    Done(1) /\ utf32[1] # <<>> /\ array[1] > 0 /\ target[1] # utf32[1]

\* C7: a call made on a calculator no other thread calls returns what it
\* returns when run alone, however the two threads' steps interleave; on a
\* shared calculator a call can return something else.
C7_DistinctInstances ==
    \A t \in Threads :
        (obj[1] # obj[2] /\ Done(t)) => result[t] = Alone(t)

\* Both threads call one calculator, the other thread's candidate is in
\* utf32, and the call returned a value it does not return alone.
C7_Witness ==
    \E t \in Threads :
        /\ obj[1] = obj[2]
        /\ Done(t)
        /\ utf32[obj[t]] # Cps(t)
        /\ stage[t] \in {"lb", "hist", "dp"}
        /\ result[t] # Alone(t)

\* C8 as stated: every value returned by a cheap check (INT_MAX from the
\* encoded length, lb from the UTF-32 lengths) is at least the true distance
\* and greater than max_distance.
C8_RejectionAtLeastTrue ==
    \A t \in Threads :
        (Done(t) /\ stage[t] \in ByteStages \cup {"lb"}) =>
            (result[t] >= Dist(t) /\ result[t] > max_distance[t])

\* C8 amended: every value returned by a cheap check is greater than
\* max_distance; the encoded-length checks return INT_MAX; the UTF-32 length
\* check returns the difference of the two lengths in code points, which is
\* at most the true distance.
C8_RejectionAboveThreshold ==
    \A t \in Threads :
        (Done(t) /\ stage[t] \in ByteStages \cup {"lb"}) =>
            /\ result[t] > max_distance[t]
            /\ stage[t] \in ByteStages => result[t] = INT_MAX
            /\ stage[t] = "lb" =>
                  /\ result[t] = Abs(Len(Cps(t)) - Len(target[obj[t]]))
                  /\ result[t] <= UnrestrictedDist(target[obj[t]], Cps(t))

\* The UTF-32 length check returned less than the true distance.
C8_Witness ==
    Done(1) /\ stage[1] = "lb" /\ result[1] < Dist(1)
        /\ result[1] > max_distance[1]

\* C9: the histogram bound of the target's target_freqs and the candidate
\* never exceeds the distance between them, so a call that returns because
\* the bound exceeds max_distance has a true distance above max_distance.
C9_HistogramBound ==
    \A t \in Threads :
        Done(t) =>
            /\ HistogramBound(target_freqs[obj[t]], Cps(t))
                   <= UnrestrictedDist(target[obj[t]], Cps(t))
            /\ stage[t] = "hist" => Dist(t) > max_distance[t]

\* A call returned the histogram bound.
C9_Witness ==
    /\ Done(1)
    /\ stage[1] = "hist"
    /\ result[1] = HistogramBound(target_freqs[1], Cps(1))

\* C10: when every code point of the candidate is one byte, a return from a
\* check on the encoded length means the lengths in code points differ by
\* more than max_distance.
C10_OneByteCandidates ==
    \A t \in Threads :
        (Done(t) /\ stage[t] \in ByteStages /\ Len(candidate[t]) = Len(Cps(t)))
            => Abs(Len(Cps(t)) - Len(target[obj[t]])) > max_distance[t]

\* A candidate of one-byte code points was rejected as too long.
C10_Witness ==
    /\ Done(1)
    /\ stage[1] = "long"
    /\ candidate[1] # <<>>
    /\ Len(candidate[1]) = Len(Cps(1))

====
